---------------------------- MODULE Spec2Model ----------------------------
(***************************************************************************)
(* Intro detection (autoclip_mvp, src/utils): a model of                   *)
(*   - AdvancedIntroDetector.detect_intro   (advanced_intro_detector.py)   *)
(*   - SmartIntroDetector.detect / _combine_results                        *)
(*                                           (smart_intro_detector.py)     *)
(*   - IntroDetector.adjust_srt_timeline and detect_intro_from_srt         *)
(*                                           (intro_detector.py)           *)
(*                                                                         *)
(* Confidences are exact rationals in the source (0.3, 0.5, 0.6, ...); the *)
(* model counts them in units of 1/ConfScale so that every sum and mean    *)
(* the code forms is an integer.  Times of candidates are whole seconds.   *)
(***************************************************************************)
EXTENDS Integers, Sequences, FiniteSets, TLC

VARIABLES
    prog,               \* which top-level call is running
    cfg,                \* the detector's configuration (set in __init__)
    hasSrt,             \* detect_intro: srt_path given and srt_path.exists()
    pc,                 \* position inside the running call
    trace,              \* the extractors invoked so far, with what each did
    detection_results,  \* detect_intro: detection_results / detect: results
    handed,             \* the candidate list as it reaches the fusion step
    result,             \* the value the call returned (NoResult before)
    raised,             \* an exception left the top-level call
    srt,                \* adjust_srt_timeline / detect_intro_from_srt input
    offset,             \* adjust_srt_timeline: offset_seconds
    blk,                \* adjust_srt_timeline: index of the next block
    adjusted_blocks,    \* adjust_srt_timeline: adjusted_blocks
    block_number,       \* adjust_srt_timeline: block_number
    subtitles,          \* detect_intro_from_srt: subtitles
    intro_end_1,        \* detect_intro_from_srt: (intro_end_1, reason_1)
    intro_end_2,        \* detect_intro_from_srt: (intro_end_2, reason_2)
    silence_lines,      \* _detect_by_audio_features: silencedetect lines of stderr
    silence_periods,    \* _detect_by_audio_features: silence_periods
    black_lines,        \* _detect_by_video_features: black_end values of stderr
    scene_changes,      \* _detect_by_video_features: scene_changes
    reordered,          \* the candidate list of a second call, in another order
    result_reordered    \* what the second call returned

vars == <<prog, cfg, hasSrt, pc, trace, detection_results, handed, result,
          raised, srt, offset, blk, adjusted_blocks, block_number, subtitles,
          intro_end_1, intro_end_2, silence_lines, silence_periods,
          black_lines, scene_changes, reordered, result_reordered>>

adjustVars == <<srt, offset, blk, adjusted_blocks, block_number>>
subVars == <<subtitles, intro_end_1, intro_end_2>>
mediaVars == <<silence_lines, silence_periods, black_lines, scene_changes>>
permVars == <<reordered, result_reordered>>

-----------------------------------------------------------------------------
(* Bounds of the model *)

\* candidate times are the multiples EndStep, 2*EndStep, ..., NumEnds*EndStep
NumEnds == 7

-----------------------------------------------------------------------------
(* Confidence values *)

\* confidence: float; one unit of the model is 1/600
ConfScale == 600

Conf(percent) == (percent * ConfScale) \div 100

-----------------------------------------------------------------------------
(* Result records *)

Details(reason, results) == [reason |-> reason, results |-> results]

\* IntroDetectionResult(intro_end_seconds, confidence, detection_method, details)
IntroDetectionResult(e, c, m, d) ==
    [intro_end_seconds |-> e, confidence |-> c, method |-> m, details |-> d]

\* SmartDetectionResult(intro_end_seconds, outro_start_seconds, confidence,
\*                      method, details)
SmartDetectionResult(e, o, c, m, d) ==
    [intro_end_seconds |-> e, outro_start_seconds |-> o, confidence |-> c,
     method |-> m, details |-> d]

\* no value returned (yet)
NoResult == [method |-> "none"]

-----------------------------------------------------------------------------
(* Configuration *)

\* AdvancedIntroDetector.__init__ defaults
AdvMinIntro == 30
AdvMaxIntro == 150
AdvDefaultIntro == 80

\* confidence_threshold: the default 0.6, a laxer and two stricter settings
Thresholds == {Conf(50), Conf(60), Conf(70), Conf(90)}

AdvConfigs ==
    {[min_intro_duration |-> AdvMinIntro, max_intro_duration |-> AdvMaxIntro,
      default_intro_duration |-> AdvDefaultIntro, confidence_threshold |-> t]
        : t \in Thresholds}

\* SmartIntroDetector.__init__
SmartMinIntro == 10
SmartMaxIntro == 180

SmartConfig ==
    [min_intro_duration |-> SmartMinIntro, max_intro_duration |-> SmartMaxIntro,
     default_intro_duration |-> 60, confidence_threshold |-> Conf(80)]

NoConfig ==
    [min_intro_duration |-> 0, max_intro_duration |-> 0,
     default_intro_duration |-> 0, confidence_threshold |-> 0]

-----------------------------------------------------------------------------
(* What the extractors can return *)

EndStep == 35

Ends == {i * EndStep : i \in 1..NumEnds}

MinOf(a, b) == IF a <= b THEN a ELSE b
MaxOf(a, b) == IF a >= b THEN a ELSE b

\* _detect_by_audio_features: the longest silence ending in [min, max], else
\* _detect_music_to_speech_transition's fixed estimate
AdvAudioCandidates(c) ==
    {IntroDetectionResult(e, Conf(80), "audio_silence", Details("silence", <<>>))
        : e \in {x \in Ends : c.min_intro_duration <= x /\ x <= c.max_intro_duration}}
    \cup
    {IntroDetectionResult(MinOf(60, c.max_intro_duration), Conf(60),
                          "music_analysis", Details("spectral_analysis", <<>>))}

\* _detect_by_video_features: black screen, scene density drop, scene gap
AdvVideoCandidates(c) ==
    {IntroDetectionResult(e, Conf(80), "black_screen", Details("black_screen_end", <<>>))
        : e \in {x \in Ends : x >= c.min_intro_duration}}
    \cup
    {IntroDetectionResult(e, Conf(75), "scene_density_drop", Details("transition_point", <<>>))
        : e \in {x \in Ends : x >= c.min_intro_duration + 10}}
    \cup
    {IntroDetectionResult(e, Conf(65), "scene_gap", Details("gap_duration", <<>>))
        : e \in {x \in Ends : x >= c.min_intro_duration}}

\* a faulty variant: an ordinary opening is rated 0.5
AdvSubtitleCandidatesLow(c) ==
    {IntroDetectionResult(e, k, "subtitle_analysis", Details("first_dialogue", <<>>))
        : e \in {x \in Ends : x >= c.min_intro_duration}, k \in {Conf(80), Conf(50)}}

\* _detect_by_subtitle_features: the first ordinary dialogue line
AdvSubtitleCandidates(c) ==
    {IntroDetectionResult(e, k, "subtitle_analysis", Details("first_dialogue", <<>>))
        : e \in {x \in Ends : x >= c.min_intro_duration}, k \in {Conf(80), Conf(60)}}

InSmartRange(x) == SmartMinIntro <= x /\ x <= SmartMaxIntro

\* _detect_by_scene_change -> _detect_by_ffmpeg_scene -> _analyze_scene_change_pattern
SmartSceneCandidates ==
    {SmartDetectionResult(e, "None", Conf(75), "scene_pattern", Details("high_density_window", <<>>))
        : e \in {x \in Ends : InSmartRange(x)}}
    \cup
    {SmartDetectionResult(e, "None", Conf(65), "scene_gap", Details("gap_duration", <<>>))
        : e \in {x \in Ends : InSmartRange(x)}}

\* _detect_by_visual_features: last in-range black frame (+1 s), text density drop
SmartVisualCandidates ==
    {SmartDetectionResult(e + 1, "None", Conf(80), "black_screen", Details("black_screen_at", <<>>))
        : e \in {x \in Ends : InSmartRange(x)}}
    \cup
    {SmartDetectionResult(e, "None", Conf(70), "text_density", Details("text_frames", <<>>))
        : e \in {x \in Ends : InSmartRange(x)}}

\* _detect_by_audio_features: the last silence_end in range
SmartAudioCandidates ==
    {SmartDetectionResult(e, "None", Conf(80), "audio_silence", Details("silence_end", <<>>))
        : e \in {x \in Ends : InSmartRange(x)}}

\* what one extractor call does: raise, return None, or return a candidate
Outcomes(cands) ==
    {[kind |-> "raise", cand |-> NoResult], [kind |-> "none", cand |-> NoResult]}
    \cup {[kind |-> "cand", cand |-> r] : r \in cands}

-----------------------------------------------------------------------------
(* Floats of the weighted mean *)

(***************************************************************************)
(* The confidences of the source are multiples of 1/Grid.  A float that    *)
(* stands for such a multiple, or for a sum of products of one with an     *)
(* int, is the record [n, err]: the IEEE-754 double of value               *)
(* n/Grid + err * 2^-54/Grid.  Each operation gives the exact result       *)
(* rounded to the nearest double (ties to even); sum() adds left to right. *)
(***************************************************************************)
Grid == 20

RECURSIVE Pow2(_)
Pow2(n) == IF n = 0 THEN 1 ELSE 2 * Pow2(n - 1)

\* the one member of a singleton; operands are bound through it so that each
\* is computed once
The(S) == CHOOSE v \in S : TRUE

\* 2^n modulo m, by squaring
RECURSIVE Pow2Mod(_, _)
Pow2Mod(n, m) ==
    IF n = 0 THEN 1
    ELSE LET half == Pow2Mod(n \div 2, m)
         IN  (half * half * (IF n % 2 = 1 THEN 2 ELSE 1)) % m

\* floor(log2(num / den)) for 0 < num / den < 2^16
BinExp(num, den) ==
    CHOOSE e \in -10..15 :
        IF e >= 0
        THEN den * Pow2(e) <= num /\ num < den * Pow2(e + 1)
        ELSE den <= num * Pow2(-e) /\ num * Pow2(-e) < 2 * den

Double(n, err) == [n |-> n, err |-> err]

\* floor(log2(x)) of the real x = n/Grid + err * 2^-54/Grid, x >= 1/4, where
\* k is floor(log2(n/Grid))
DoubleExpAt(n, err, k) ==
    LET power == IF k >= 0 THEN n = Grid * Pow2(k) ELSE n * Pow2(-k) = Grid
    IN  IF power /\ err < 0 THEN k - 1 ELSE k

DoubleExp(n, err) == The({DoubleExpAt(n, err, k) : k \in {BinExp(n, Grid)}})

\* the gap between neighbouring doubles in [2^k, 2^(k+1)), in units 2^-54/Grid
Ulp(k) == Pow2(k + 2) * Grid

\* the double nearest to the real n/Grid + err * 2^-54/Grid, which lies in
\* [2^k, 2^(k+1)) where the gap is u; r is n * 2^(52-k) modulo 2 * Grid
RoundToGap(n, err, u, r) ==
    LET t == (u \div Grid) * (r % Grid) + err
        c == t \div u
        rem == t - c * u
        odd == (r \div Grid + c) % 2 = 1
    IN  IF 2 * rem < u \/ (2 * rem = u /\ ~odd)
        THEN Double(n, err - rem)
        ELSE Double(n, err - rem + u)

RoundInBinade(n, err, k) ==
    The({RoundToGap(n, err, v[1], v[2])
            : v \in {<<Ulp(k), ((n % (2 * Grid)) * Pow2Mod(52 - k, 2 * Grid)) % (2 * Grid)>>}})

\* the double nearest to the real n/Grid + err * 2^-54/Grid
RoundToDouble(n, err) ==
    IF n = 0 /\ err = 0 THEN Double(0, 0)
    ELSE The({RoundInBinade(v[1], v[2], DoubleExp(v[1], v[2])) : v \in {<<n, err>>}})

\* the float of a confidence literal such as 0.65 (conf in units 1/ConfScale)
FloatOfConf(conf) == RoundToDouble((conf * Grid) \div ConfScale, 0)

\* r.intro_end_seconds * r.confidence
FloatTimes(e, x) == The({RoundToDouble(e * v.n, e * v.err) : v \in {x}})

\* x + y
FloatPlus(x, y) ==
    The({RoundToDouble(p[1].n + p[2].n, p[1].err + p[2].err) : p \in {<<x, y>>}})

\* sum(r.confidence for r in results), from the accumulator acc on
RECURSIVE FloatSumConf(_, _)
FloatSumConf(s, acc) ==
    IF s = <<>> THEN acc
    ELSE FloatSumConf(Tail(s), FloatPlus(acc, FloatOfConf(s[1].confidence)))

\* sum(r.intro_end_seconds * r.confidence for r in results)
RECURSIVE FloatSumWeighted(_, _)
FloatSumWeighted(s, acc) ==
    IF s = <<>> THEN acc
    ELSE FloatSumWeighted(Tail(s),
             FloatPlus(acc, FloatTimes(s[1].intro_end_seconds,
                                       FloatOfConf(s[1].confidence))))

-----------------------------------------------------------------------------
(* The fusion step *)

RECURSIVE SumEnds(_)
SumEnds(s) ==
    IF s = <<>> THEN 0 ELSE s[1].intro_end_seconds + SumEnds(Tail(s))

RECURSIVE SumConf(_)
SumConf(s) ==
    IF s = <<>> THEN 0 ELSE s[1].confidence + SumConf(Tail(s))

RECURSIVE SumWeighted(_)
SumWeighted(s) ==
    IF s = <<>> THEN 0
    ELSE s[1].intro_end_seconds * s[1].confidence + SumWeighted(Tail(s))

\* a faulty variant: the element goes before the elements of equal key
InsertByConfBeforeEqual(r, sorted) ==
    LET before == {i \in 1..Len(sorted) : sorted[i].confidence > r.confidence}
        k == Cardinality(before)
    IN  SubSeq(sorted, 1, k) \o <<r>> \o SubSeq(sorted, k + 1, Len(sorted))

\* list.sort(key=lambda x: x.confidence, reverse=True): a stable sort, so an
\* element is placed after every element already there whose key is >= its own
InsertByConf(r, sorted) ==
    LET before == {i \in 1..Len(sorted) : sorted[i].confidence >= r.confidence}
        k == Cardinality(before)
    IN  SubSeq(sorted, 1, k) \o <<r>> \o SubSeq(sorted, k + 1, Len(sorted))

RECURSIVE SortFrom(_, _)
SortFrom(s, acc) ==
    IF s = <<>> THEN acc ELSE SortFrom(Tail(s), InsertByConf(s[1], acc))

SortByConfidence(s) == SortFrom(s, <<>>)

\* a faulty variant: a strict comparison with the threshold
MeetsThresholdStrict(c, t) == c > t

\* best_result.confidence >= self.confidence_threshold
MeetsThreshold(c, t) == c >= t

\* a faulty variant: the mean is never out of range
AvgInRangeAlways(s, c) == TRUE

\* avg_time = sum(intro_end_seconds) / len, compared with [min, max];
\* the quotient is kept exact by comparing the sum with len * bound
AvgInRange(s, c) ==
    /\ c.min_intro_duration * Len(s) <= SumEnds(s)
    /\ SumEnds(s) <= c.max_intro_duration * Len(s)

\* a faulty variant: the mean rounded up
AvgTimeRoundUp(s) == (SumEnds(s) + Len(s) - 1) \div Len(s)

\* int(avg_time) of a non-negative quotient
AvgTime(s) == SumEnds(s) \div Len(s)

MethodEnds(s) == [i \in 1..Len(s) |-> <<s[i].method, s[i].intro_end_seconds>>]

\* a faulty variant: the default result carries min_intro_duration
AdvDefaultResultMinIntro(c) ==
    IntroDetectionResult(c.min_intro_duration, Conf(50), "default",
                         Details("cannot detect reliably, using the default", <<>>))

\* the default result of detect_intro
AdvDefaultResult(c) ==
    IntroDetectionResult(c.default_intro_duration, Conf(50), "default",
                         Details("cannot detect reliably, using the default", <<>>))

\* detect_intro, step 4 on: what is returned for the collected candidates
AdvFusion(s, c) ==
    LET sorted == IF s # <<>> THEN SortByConfidence(s) ELSE s
    IN  IF s # <<>> /\ MeetsThreshold(sorted[1].confidence, c.confidence_threshold)
        THEN sorted[1]
        ELSE IF Len(sorted) >= 2 /\ AvgInRange(sorted, c)
        THEN IntroDetectionResult(AvgTime(sorted), Conf(60), "average",
                 Details("mean of several detection results", MethodEnds(sorted)))
        ELSE AdvDefaultResult(c)

\* round(x) of Python 3 for x = num/den >= 0: to the nearest integer, a half
\* to the even neighbour
RoundHalfEven(num, den) ==
    LET q == num \div den
        r == num % den
    IN  IF 2 * r < den THEN q
        ELSE IF 2 * r > den THEN q + 1
        ELSE IF q % 2 = 0 THEN q ELSE q + 1

\* round(w / t) for the floats w and t: where the exact quotient is not a
\* half it decides; where it is the half h = m + 1/2, the float quotient is h
\* unless the errors of w and t move it further than half a gap away
RoundQuotient(w, t) ==
    LET exact == RoundHalfEven(w.n, t.n)
    IN  IF (2 * w.n) % t.n # 0 \/ ((2 * w.n) \div t.n) % 2 = 0 THEN exact
        ELSE LET m == ((2 * w.n) \div t.n - 1) \div 2
                 kh == BinExp(2 * m + 1, 2)
                 d == t.n * w.err - w.n * t.err
                 lim == Pow2(kh + 1) * t.n * t.n
                 absd == IF d >= 0 THEN d ELSE -d
             IN  IF absd < lim \/ (absd = lim /\ t.err >= 0) THEN exact
                 ELSE IF d < 0 THEN m ELSE m + 1

\* round(weighted_time) of _combine_results for the sorted results
RoundWeightedTime(s) ==
    The({RoundQuotient(p[1], p[2])
            : p \in {<<FloatSumWeighted(s, Double(0, 0)), FloatSumConf(s, Double(0, 0))>>}})

\* |r.intro_end_seconds - weighted_time| as a numerator over total_weight
DistNum(r, s) ==
    LET d == r.intro_end_seconds * SumConf(s) - SumWeighted(s)
    IN  IF d >= 0 THEN d ELSE -d

\* min(results, key=...): the first element at the least distance
Closest(s) ==
    LET best == {i \in 1..Len(s) : \A j \in 1..Len(s) : DistNum(s[i], s) <= DistNum(s[j], s)}
    IN  s[CHOOSE i \in best : \A j \in best : i <= j]

\* a faulty variant: the total weight, neither divided nor capped
CombinedConfidenceTotal(s) == SumConf(s)

\* min(0.9, total_weight / len(results))
CombinedConfidence(s) == MinOf(Conf(90), SumConf(s) \div Len(s))

MethodEndConfs(s) ==
    [i \in 1..Len(s) |-> <<s[i].method, s[i].intro_end_seconds, s[i].confidence>>]

\* SmartIntroDetector._combine_results (results is non-empty; the division by
\* total_weight is the one statement of it that can raise)
combine_results(s) ==
    IF Len(s) = 1 THEN s[1]
    ELSE LET sorted == SortByConfidence(s)
         IN  IF sorted[1].confidence >= Conf(80) THEN sorted[1]
             ELSE SmartDetectionResult(
                      RoundWeightedTime(sorted),
                      Closest(sorted).outro_start_seconds,
                      CombinedConfidence(sorted),
                      "weighted_average",
                      Details("weighted_time", MethodEndConfs(sorted)))

CombineRaises(s) ==
    /\ Len(s) >= 2
    /\ SortByConfidence(s)[1].confidence < Conf(80)
    /\ SumConf(s) = 0

\* the default result of SmartIntroDetector.detect
SmartDefaultResult ==
    SmartDetectionResult(60, "None", Conf(30), "default",
                         Details("cannot detect, using the default", <<>>))

-----------------------------------------------------------------------------
(* detect_intro and detect: the extractor calls *)

\* a faulty variant: only the audio call is guarded
ExceptionCaughtAudioOnly(name) == name = "audio"

\* try: ... except Exception as e: logger.warning(...) around each extractor
ExceptionCaught(name) == TRUE

\* a faulty variant: a failing audio call ends the collection
AfterExceptAbort(next) == IF next = "video" THEN "fuse" ELSE next

\* after the except clause control goes on with the next statement
AfterExcept(next) == next

CallExtractor(name, cands, next) ==
    \E o \in Outcomes(cands) :
        /\ trace' = Append(trace, [extractor |-> name, outcome |-> o])
        /\ IF o.kind = "raise" /\ ~ExceptionCaught(name)
           THEN /\ raised' = TRUE
                /\ pc' = "done"
                /\ UNCHANGED detection_results
           ELSE /\ raised' = raised
                /\ pc' = (IF o.kind = "raise" THEN AfterExcept(next) ELSE next)
                /\ detection_results' =
                      (IF o.kind = "cand" THEN Append(detection_results, o.cand)
                       ELSE detection_results)
        /\ UNCHANGED <<prog, cfg, hasSrt, handed, result>>
        /\ UNCHANGED <<adjustVars, subVars, mediaVars, permVars>>

\* 1. self._detect_by_audio_features(video_path)
AdvAudio ==
    /\ prog = "detect_intro" /\ pc = "audio"
    /\ CallExtractor("audio", AdvAudioCandidates(cfg), "video")

\* 2. self._detect_by_video_features(video_path)
AdvVideo ==
    /\ prog = "detect_intro" /\ pc = "video"
    /\ CallExtractor("video", AdvVideoCandidates(cfg), "subtitle")

\* 3. if srt_path and srt_path.exists(): self._detect_by_subtitle_features
AdvSubtitle ==
    /\ prog = "detect_intro" /\ pc = "subtitle"
    /\ IF hasSrt
       THEN CallExtractor("subtitle", AdvSubtitleCandidates(cfg), "fuse")
       ELSE /\ pc' = "fuse"
            /\ UNCHANGED <<prog, cfg, hasSrt, trace, detection_results, handed,
                           result, raised>>
            /\ UNCHANGED <<adjustVars, subVars, mediaVars, permVars>>

\* 4. sort, threshold test, average, default
AdvFuse ==
    /\ prog = "detect_intro" /\ pc = "fuse"
    /\ handed' = detection_results
    /\ detection_results' =
          (IF detection_results # <<>> THEN SortByConfidence(detection_results)
           ELSE detection_results)
    /\ result' = AdvFusion(detection_results, cfg)
    /\ pc' = "done"
    /\ UNCHANGED <<prog, cfg, hasSrt, trace, raised>>
    /\ UNCHANGED <<adjustVars, subVars, mediaVars, permVars>>

\* 1. self._detect_by_scene_change(video_path)
SmartScene ==
    /\ prog = "detect" /\ pc = "scene"
    /\ CallExtractor("scene", SmartSceneCandidates, "visual")

\* 2. self._detect_by_visual_features(video_path)
SmartVisual ==
    /\ prog = "detect" /\ pc = "visual"
    /\ CallExtractor("visual", SmartVisualCandidates, "audio")

\* 3. self._detect_by_audio_features(video_path)
SmartAudio ==
    /\ prog = "detect" /\ pc = "audio"
    /\ CallExtractor("audio", SmartAudioCandidates, "combine")

\* 4. if results: return self._combine_results(results); else the default
SmartCombine ==
    /\ prog = "detect" /\ pc = "combine"
    /\ handed' = detection_results
    /\ IF detection_results # <<>> /\ CombineRaises(detection_results)
       THEN /\ raised' = TRUE
            /\ result' = result
       ELSE /\ raised' = raised
            /\ result' = (IF detection_results # <<>>
                          THEN combine_results(detection_results)
                          ELSE SmartDefaultResult)
    /\ detection_results' =
          (IF Len(detection_results) >= 2 THEN SortByConfidence(detection_results)
           ELSE detection_results)
    /\ pc' = "done"
    /\ UNCHANGED <<prog, cfg, hasSrt, trace>>
    /\ UNCHANGED <<adjustVars, subVars, mediaVars, permVars>>

AdjustIdle ==
    /\ srt = <<>>
    /\ offset = 0
    /\ blk = 0
    /\ adjusted_blocks = <<>>
    /\ block_number = 0

SubIdle ==
    /\ subtitles = <<>>
    /\ intro_end_1 = [end |-> -1, reason |-> ""]
    /\ intro_end_2 = [end |-> -1, reason |-> ""]

MediaIdle ==
    /\ silence_lines = <<>>
    /\ silence_periods = <<>>
    /\ black_lines = <<>>
    /\ scene_changes = <<>>

PermIdle ==
    /\ reordered = <<>>
    /\ result_reordered = NoResult

DetectIdle ==
    /\ cfg = NoConfig
    /\ hasSrt = FALSE
    /\ trace = <<>>
    /\ detection_results = <<>>
    /\ handed = <<>>
    /\ result = NoResult
    /\ raised = FALSE

InitDetect ==
    /\ prog \in {"detect_intro", "detect"}
    /\ cfg \in (IF prog = "detect_intro" THEN AdvConfigs ELSE {SmartConfig})
    /\ hasSrt \in (IF prog = "detect_intro" THEN BOOLEAN ELSE {FALSE})
    /\ pc = (IF prog = "detect_intro" THEN "audio" ELSE "scene")
    /\ trace = <<>>
    /\ detection_results = <<>>
    /\ handed = <<>>
    /\ result = NoResult
    /\ raised = FALSE
    /\ AdjustIdle
    /\ SubIdle
    /\ MediaIdle
    /\ PermIdle

NextDetect ==
    \/ AdvAudio
    \/ AdvVideo
    \/ AdvSubtitle
    \/ AdvFuse
    \/ SmartScene
    \/ SmartVisual
    \/ SmartAudio
    \/ SmartCombine

SpecDetect == InitDetect /\ [][NextDetect]_vars

-----------------------------------------------------------------------------
(* Properties of detect_intro and detect *)

Returned == pc = "done" /\ ~raised

\* the candidates of the extractors that returned one, in invocation order
RECURSIVE TraceCands(_)
TraceCands(tr) ==
    IF tr = <<>> THEN <<>>
    ELSE (IF tr[1].outcome.kind = "cand" THEN <<tr[1].outcome.cand>> ELSE <<>>)
         \o TraceCands(Tail(tr))

Invoked == [i \in 1..Len(trace) |-> trace[i].extractor]

KindsSeen == {trace[i].outcome.kind : i \in 1..Len(trace)}

\* the highest confidence among the candidates handed to the fusion step
TopConf == CHOOSE c \in {handed[i].confidence : i \in 1..Len(handed)} :
               \A i \in 1..Len(handed) : handed[i].confidence <= c

\* the first candidate, in extractor order, that has the highest confidence
FirstTop == handed[CHOOSE i \in 1..Len(handed) :
                      /\ handed[i].confidence = TopConf
                      /\ \A j \in 1..(i - 1) : handed[j].confidence # TopConf]

NumTop == Cardinality({i \in 1..Len(handed) : handed[i].confidence = TopConf})

\* C1: whatever each extractor does (raise, return None, return a candidate),
\* detect_intro and detect never let an exception out, go on until they
\* return, and return one result record.
C1_TotalNeverRaises ==
    /\ ~raised
    /\ pc # "done" => ENABLED NextDetect
    /\ pc = "done" =>
          result.method \in {"default", "average", "weighted_average"}
                            \cup {handed[i].method : i \in 1..Len(handed)}

C1_Witness ==
    /\ pc = "done"
    /\ KindsSeen = {"raise", "none", "cand"}
    /\ result # NoResult

\* C2: every returned result has 0 < confidence <= 1 and
\* intro_end_seconds >= 0.
C2_ResultInBounds ==
    Returned =>
        /\ 0 < result.confidence
        /\ result.confidence <= ConfScale
        /\ result.intro_end_seconds >= 0

C2_Witness ==
    /\ Returned
    /\ result.method = "weighted_average"
    /\ result.confidence > Conf(70)

\* C3 (as stated): with no candidate, each detector returns method = default,
\* confidence = 0.5, end = the default intro duration, and a reason.
C3_Original ==
    (Returned /\ handed = <<>>) =>
        /\ result.method = "default"
        /\ result.confidence = Conf(50)
        /\ result.intro_end_seconds = cfg.default_intro_duration
        /\ result.details.reason # ""

\* C3 (amended): with no candidate, detect_intro returns method = default,
\* confidence = 0.5, end = default_intro_duration and a reason; detect returns
\* method = default, confidence = 0.3, end = 60 and a reason.
C3_DefaultWhenNoCandidate ==
    (Returned /\ handed = <<>>) =>
        /\ result.method = "default"
        /\ result.details.reason # ""
        /\ prog = "detect_intro" =>
              /\ result.confidence = Conf(50)
              /\ result.intro_end_seconds = cfg.default_intro_duration
        /\ prog = "detect" =>
              /\ result.confidence = Conf(30)
              /\ result.intro_end_seconds = 60

C3_Witness ==
    /\ Returned
    /\ prog = "detect_intro"
    /\ handed = <<>>
    /\ KindsSeen = {"raise", "none"}
    /\ result.method = "default"

\* C4: when the highest candidate confidence is >= the threshold, the result
\* is a candidate of that confidence, unchanged in every field, and neither
\* an average nor the default; a single candidate at or above the threshold
\* is returned as it is.
C4_TopCandidateVerbatim ==
    (Returned /\ handed # <<>> /\ TopConf >= cfg.confidence_threshold) =>
        /\ \E i \in 1..Len(handed) :
              /\ handed[i].confidence = TopConf
              /\ result = handed[i]
        /\ result.method \notin {"average", "weighted_average", "default"}
        /\ Len(handed) = 1 => result = handed[1]

C4_Witness ==
    /\ Returned
    /\ prog = "detect_intro"
    /\ Len(handed) = 1
    /\ handed[1].confidence = cfg.confidence_threshold
    /\ result = handed[1]

\* two candidates reached the fusion step, both below the threshold, both > 0
TwoLowCandidates ==
    /\ Returned
    /\ Len(handed) = 2
    /\ \A i \in 1..2 : /\ handed[i].confidence < cfg.confidence_threshold
                       /\ handed[i].confidence > 0

\* sum(end_i * conf_i) and sum(conf_i) of the two candidates
WeightedNum ==
    handed[1].intro_end_seconds * handed[1].confidence
        + handed[2].intro_end_seconds * handed[2].confidence

WeightedDen == handed[1].confidence + handed[2].confidence

\* n is WeightedNum / WeightedDen rounded to a nearest whole second
IsRoundedWeightedMean(n) ==
    LET d == WeightedNum - n * WeightedDen
    IN  2 * (IF d >= 0 THEN d ELSE -d) <= WeightedDen

WeightedMeanInRange ==
    /\ cfg.min_intro_duration * WeightedDen <= WeightedNum
    /\ WeightedNum <= cfg.max_intro_duration * WeightedDen

PlainSum == handed[1].intro_end_seconds + handed[2].intro_end_seconds

\* C5 (as stated): two candidates, both below the threshold and > 0, weighted
\* mean within [min, max]: the result's end is the confidence-weighted mean
\* rounded to whole seconds and its method says it is an average.
C5_Original ==
    (TwoLowCandidates /\ WeightedMeanInRange) =>
        /\ IsRoundedWeightedMean(result.intro_end_seconds)
        /\ result.method \in {"average", "weighted_average"}

\* C5 (amended): two candidates, both below the threshold and > 0.  In
\* _combine_results the result's end is the confidence-weighted mean rounded
\* to the nearest whole second and its method is weighted_average.  In
\* detect_intro, when the plain (unweighted) mean of the two ends lies within
\* [min, max], the result's end is that plain mean cut to whole seconds and
\* its method is average.
C5_AveragedResult ==
    TwoLowCandidates =>
        /\ prog = "detect" =>
              /\ IsRoundedWeightedMean(result.intro_end_seconds)
              /\ result.method = "weighted_average"
        /\ (/\ prog = "detect_intro"
            /\ 2 * cfg.min_intro_duration <= PlainSum
            /\ PlainSum <= 2 * cfg.max_intro_duration) =>
              /\ 2 * result.intro_end_seconds <= PlainSum
              /\ PlainSum <= 2 * result.intro_end_seconds + 1
              /\ result.method = "average"

C5_Witness ==
    /\ TwoLowCandidates
    /\ prog = "detect_intro"
    /\ result.method = "average"
    /\ PlainSum % 2 = 1
    /\ ~IsRoundedWeightedMean(result.intro_end_seconds)

\* C6: when an extractor raises, the later extractors are still invoked (audio,
\* video, subtitle when a subtitle file is given; scene, visual, audio), and
\* the list that reaches the fusion step holds exactly the candidates of the
\* extractors that returned one, in invocation order.
C6_ExtractorIsolation ==
    /\ (prog = "detect_intro" /\ pc = "fuse") =>
          /\ Invoked = (IF hasSrt THEN <<"audio", "video", "subtitle">>
                        ELSE <<"audio", "video">>)
          /\ detection_results = TraceCands(trace)
    /\ (prog = "detect" /\ pc = "combine") =>
          /\ Invoked = <<"scene", "visual", "audio">>
          /\ detection_results = TraceCands(trace)
    /\ pc = "done" => handed = TraceCands(trace)

C6_Witness ==
    /\ prog = "detect_intro" /\ pc = "fuse"
    /\ Len(trace) = 3
    /\ trace[1].outcome.kind = "raise"
    /\ trace[2].outcome.kind = "cand"
    /\ trace[3].outcome.kind = "cand"
    /\ detection_results = <<trace[2].outcome.cand, trace[3].outcome.cand>>

PosIn(s, r) == CHOOSE i \in 1..Len(s) : s[i] = r

\* C7: when two or more candidates share the highest confidence and it is >=
\* the threshold, the result is the first of them in extractor order; the sort
\* by confidence keeps candidates of equal confidence in their order.
C7_StableTieBreak ==
    /\ (Returned /\ handed # <<>> /\ NumTop >= 2
           /\ TopConf >= cfg.confidence_threshold) => result = FirstTop
    /\ (Returned /\ Len(handed) >= 2) =>
          \A i, j \in 1..Len(handed) :
              (i < j /\ handed[i].confidence = handed[j].confidence) =>
                  PosIn(detection_results, handed[i])
                      < PosIn(detection_results, handed[j])

C7_Witness ==
    /\ Returned
    /\ prog = "detect_intro"
    /\ Len(handed) = 3
    /\ NumTop = 3
    /\ TopConf >= cfg.confidence_threshold
    /\ result = handed[1]
    /\ result.method = "audio_silence"

-----------------------------------------------------------------------------
(* SRT timecodes and Python floats *)

(***************************************************************************)
(* A timecode HH:MM:SS,mmm is the record [h, m, s, ms].  The model keeps   *)
(* to timecodes below one minute, where hours * 3600 + minutes * 60 +      *)
(* float("SS.mmm") adds 0 to the parsed float and rounds nothing more.     *)
(*                                                                         *)
(* float("SS.mmm") is the IEEE-754 double nearest to k/1000 (k the         *)
(* milliseconds).  With E = floor(log2(k/1000)) the double is a multiple   *)
(* of 2^(E-52), so it is k/1000 + err/(1000 * 2^(52-E)) for the integer    *)
(* err in (-500, 500) with err = -(k * 2^(52-E)) mod 1000.  The float is   *)
(* the record [ms |-> k, err |-> err, exp |-> E].                          *)
(***************************************************************************)

Timecode(k) ==
    [h |-> k \div 3600000, m |-> (k \div 60000) % 60, s |-> (k \div 1000) % 60,
     ms |-> k % 1000]

Millis(tc) == ((tc.h * 60 + tc.m) * 60 + tc.s) * 1000 + tc.ms

RECURSIVE Pow2Mod1000(_)
Pow2Mod1000(n) == IF n = 0 THEN 1 ELSE (2 * Pow2Mod1000(n - 1)) % 1000

\* the rounding of k/1000 to a double, in units of 1/(1000 * 2^(52-E))
RoundingError(k) ==
    LET r == ((k % 1000) * Pow2Mod1000(52 - BinExp(k, 1000))) % 1000
    IN  IF r < 500 THEN -r ELSE 1000 - r

\* _time_to_seconds(time_str)
time_to_seconds(tc) ==
    LET k == Millis(tc)
    IN  [ms |-> k,
         err |-> IF k % 1000 = 0 THEN 0 ELSE RoundingError(k),
         exp |-> IF k = 0 THEN 0 ELSE BinExp(k, 1000)]

\* x <= n for a parsed float x and a whole number n of seconds
FloatLeq(x, n) == x.ms <= 1000 * n

\* int((secs % 1) * 1000) for secs % 1 = frac/1000 + err/(1000 * 2^(52-exp)),
\* 0 < frac < 1000: the product frac + err/2^(52-exp) is rounded to a double
\* and cut; it is cut to frac - 1 when it lies below frac by more than half
\* the gap between frac and the double before it
TruncMillis(frac, err, exp) ==
    IF err >= 0 THEN frac
    ELSE LET j == BinExp(frac, 1)
             half == IF frac = Pow2(j) THEN j - 2 - exp ELSE j - 1 - exp
         IN  IF half >= 0 /\ -err <= Pow2(half) THEN frac ELSE frac - 1

\* adjust_time(time_str) inside adjust_srt_timeline, offset_seconds whole
adjust_time(tc, off) ==
    LET x == time_to_seconds(tc)
        new_ms == x.ms - 1000 * off
    IN  IF new_ms <= 0 THEN Timecode(0)
        ELSE LET whole == new_ms \div 1000
                 frac == new_ms % 1000
             IN  [h |-> whole \div 3600,
                  m |-> (whole % 3600) \div 60,
                  s |-> whole % 60,
                  ms |-> IF frac = 0 THEN 0 ELSE TruncMillis(frac, x.err, x.exp)]

-----------------------------------------------------------------------------
(* adjust_srt_timeline *)

\* at most MaxCaptions blocks in a file, offsets of 0..MaxOffset seconds
MaxCaptions == 2
MaxOffset == 2

\* the times, in milliseconds, that the timecodes of a file are taken from
SrtTimes == {0, 667, 1001, 2000, 2500}

TextLines == {<<"a">>, <<"a", "b">>}

\* a block of the file: index line, timecode line, text lines.  matches says
\* whether time_pattern matches the second line; a block without text lines
\* has fewer than 3 lines
SrtBlocks ==
    {[start |-> Timecode(a), end |-> Timecode(b), text |-> t, matches |-> TRUE]
        : a \in SrtTimes, b \in SrtTimes, t \in TextLines}
    \cup {[start |-> Timecode(0), end |-> Timecode(2000), text |-> <<>>, matches |-> TRUE],
          [start |-> Timecode(0), end |-> Timecode(2000), text |-> <<"a">>, matches |-> FALSE]}

WellFormedBlocks ==
    {b \in SrtBlocks : b.matches /\ Len(b.text) >= 1 /\ Millis(b.start) <= Millis(b.end)}

SrtFiles ==
    UNION {[1..n -> {b \in SrtBlocks : Millis(b.start) <= Millis(b.end)}]
              : n \in 0..MaxCaptions}

\* the body of the loop over blocks
AdjustBlock ==
    /\ prog = "adjust_srt_timeline" /\ pc = "blocks"
    /\ blk <= Len(srt)
    /\ LET b == srt[blk]
           keep == /\ 2 + Len(b.text) >= 3
                   /\ b.matches
                   /\ ~FloatLeq(time_to_seconds(b.end), offset)
       IN  IF keep
           THEN /\ adjusted_blocks' =
                      Append(adjusted_blocks,
                             [number |-> block_number,
                              start |-> adjust_time(b.start, offset),
                              end |-> adjust_time(b.end, offset),
                              text |-> b.text])
                /\ block_number' = block_number + 1
           ELSE UNCHANGED <<adjusted_blocks, block_number>>
    /\ blk' = blk + 1
    /\ UNCHANGED <<prog, cfg, hasSrt, pc, trace, detection_results, handed,
                   result, raised, srt, offset>>
    /\ UNCHANGED <<subVars, mediaVars, permVars>>

\* '\n\n'.join(adjusted_blocks) is written to output_path
AdjustWrite ==
    /\ prog = "adjust_srt_timeline" /\ pc = "blocks"
    /\ blk > Len(srt)
    /\ pc' = "done"
    /\ UNCHANGED <<prog, cfg, hasSrt, trace, detection_results, handed,
                   result, raised>>
    /\ UNCHANGED <<adjustVars, subVars, mediaVars, permVars>>

InitAdjust ==
    /\ prog = "adjust_srt_timeline"
    /\ pc = "blocks"
    /\ srt \in SrtFiles
    /\ offset \in 0..MaxOffset
    /\ blk = 1
    /\ adjusted_blocks = <<>>
    /\ block_number = 1
    /\ DetectIdle
    /\ SubIdle
    /\ MediaIdle
    /\ PermIdle

NextAdjust ==
    \/ AdjustBlock
    \/ AdjustWrite

SpecAdjust == InitAdjust /\ [][NextAdjust]_vars

\* the file holds captions only: index line, timecode line, text lines
WellFormedFile == \A i \in 1..Len(srt) : srt[i] \in WellFormedBlocks

RECURSIVE Survivors(_, _)
Survivors(blocks, off) ==
    IF blocks = <<>> THEN <<>>
    ELSE (IF Millis(blocks[1].end) > 1000 * off THEN <<blocks[1]>> ELSE <<>>)
         \o Survivors(Tail(blocks), off)

ShiftedMillis(tc, off) == MaxOf(0, Millis(tc) - 1000 * off)

\* C8: with offset >= 0, a caption whose end is <= offset is absent from the
\* output; the captions whose end is > offset are present, in their order,
\* numbered 1, 2, 3, ..., each with new_start = max(0, old_start - offset)
\* and new_end = max(0, old_end - offset).
C8_TimelineAdjustment ==
    (prog = "adjust_srt_timeline" /\ pc = "done" /\ WellFormedFile) =>
        LET kept == Survivors(srt, offset)
        IN  /\ Len(adjusted_blocks) = Len(kept)
            /\ \A i \in 1..Len(adjusted_blocks) :
                  /\ adjusted_blocks[i].number = i
                  /\ adjusted_blocks[i].text = kept[i].text
                  /\ Millis(adjusted_blocks[i].start) = ShiftedMillis(kept[i].start, offset)
                  /\ Millis(adjusted_blocks[i].end) = ShiftedMillis(kept[i].end, offset)

\* C9: with offset 0 the output of a well-formed file has as many captions,
\* in the same order, with the same text and the same start and end
\* timecodes, also for a caption that ends at 00:00:00,000.
C9_RoundTripAtZero ==
    (prog = "adjust_srt_timeline" /\ pc = "done" /\ WellFormedFile /\ offset = 0) =>
        /\ Len(adjusted_blocks) = Len(srt)
        /\ \A i \in 1..Len(adjusted_blocks) :
              /\ adjusted_blocks[i].text = srt[i].text
              /\ adjusted_blocks[i].start = srt[i].start
              /\ adjusted_blocks[i].end = srt[i].end

-----------------------------------------------------------------------------
(* IntroDetector.detect_intro_from_srt *)

\* at most MaxSubs captions in a subtitle file
MaxSubs == 4

\* IntroDetector.__init__ defaults; min_dialogue_density 0.3 is 30 percent
MinDialogueDensityPct == 30
SilenceThreshold == 30
IntroMinIntro == 20
IntroMaxIntro == 120
IntroDefaultIntro == 60

\* the default configuration, and one with min_intro_duration = 0
IntroConfigs ==
    {[min_dialogue_density |-> MinDialogueDensityPct,
      silence_threshold |-> SilenceThreshold,
      min_intro_duration |-> m,
      max_intro_duration |-> IntroMaxIntro,
      default_intro_duration |-> IntroDefaultIntro] : m \in {IntroMinIntro, 0}}

\* caption start times in whole seconds; a caption lasts one second; chars is
\* len(text.strip())
SubStarts == {0, 5, 20, 21, 22, 30, 51, 125}

Captions == {[start |-> t, end |-> t + 1, chars |-> n] : t \in SubStarts, n \in {3, 12}}

\* subtitle files whose captions are in time order
SubFiles ==
    UNION {{f \in [1..n -> Captions] :
                \A i \in 1..(n - 1) : f[i].start <= f[i + 1].start}
              : n \in 0..MaxSubs}

\* a faulty variant: a record goes before the records of equal start
InsertByStartBeforeEqual(r, sorted) ==
    LET k == Cardinality({i \in 1..Len(sorted) : sorted[i].start < r.start})
    IN  SubSeq(sorted, 1, k) \o <<r>> \o SubSeq(sorted, k + 1, Len(sorted))

\* sorted(subtitles, key=lambda x: x['start']): stable
InsertByStart(r, sorted) ==
    LET k == Cardinality({i \in 1..Len(sorted) : sorted[i].start <= r.start})
    IN  SubSeq(sorted, 1, k) \o <<r>> \o SubSeq(sorted, k + 1, Len(sorted))

RECURSIVE SortByStartFrom(_, _)
SortByStartFrom(s, acc) ==
    IF s = <<>> THEN acc ELSE SortByStartFrom(Tail(s), InsertByStart(s[1], acc))

\* _parse_srt(content) for a file of well-formed blocks
parse_srt(content) == SortByStartFrom(content, <<>>)

StrategyResult(e, reason, cited) == [end |-> e, reason |-> reason, cited |-> cited]

\* the for loop of _detect_by_dialogue_density from caption i on, with
\* current_window_start = w and dialogue_count = n
RECURSIVE DensityLoop(_, _, _, _, _)
DensityLoop(subs, i, w, n, c) ==
    IF i > Len(subs) THEN StrategyResult(-1, "no dense dialogue", -1)
    ELSE IF subs[i].start >= w + 10
         THEN IF n * 100 >= c.min_dialogue_density * 10
              THEN StrategyResult(w, "dense dialogue starts", w)
              ELSE DensityLoop(subs, i, w + 10, 0, c)
         ELSE DensityLoop(subs, i + 1, w,
                          IF subs[i].start >= w /\ subs[i].chars > 5 THEN n + 1 ELSE n,
                          c)

\* _detect_by_dialogue_density(subtitles)
detect_by_dialogue_density(subs, c) ==
    IF subs = <<>> THEN StrategyResult(-1, "", -1)
    ELSE DensityLoop(subs, 1, 0, 0, c)

\* a faulty variant: the caption after the last long gap is reported
SilenceBreakLastGap(subs, c) ==
    IF subs = <<>> THEN [end |-> -1, reason |-> "", cited |-> -1]
    ELSE IF subs[1].start >= c.min_intro_duration
         THEN [end |-> subs[1].start, reason |-> "first dialogue", cited |-> subs[1].start]
         ELSE LET gaps == {i \in 1..(Len(subs) - 1) :
                              subs[i + 1].start - subs[i].end >= c.silence_threshold}
              IN  IF gaps = {} THEN [end |-> -1, reason |-> "no silence gap", cited |-> -1]
                  ELSE LET i == CHOOSE g \in gaps : \A h \in gaps : g >= h
                       IN  [end |-> subs[i + 1].start, reason |-> "silence gap",
                            cited |-> subs[i + 1].start - subs[i].end]

\* _detect_by_silence_break(subtitles)
detect_by_silence_break(subs, c) ==
    IF subs = <<>> THEN StrategyResult(-1, "", -1)
    ELSE IF subs[1].start >= c.min_intro_duration
         THEN StrategyResult(subs[1].start, "first dialogue", subs[1].start)
         ELSE LET gaps == {i \in 1..(Len(subs) - 1) :
                              subs[i + 1].start - subs[i].end >= c.silence_threshold}
              IN  IF gaps = {} THEN StrategyResult(-1, "no silence gap", -1)
                  ELSE LET i == CHOOSE g \in gaps : \A h \in gaps : g <= h
                       IN  StrategyResult(subs[i + 1].start, "silence gap",
                                          subs[i + 1].start - subs[i].end)

InIntroRange(e, c) == c.min_intro_duration <= e /\ e <= c.max_intro_duration

\* a faulty variant: the silence-break result is preferred
SelectSilenceFirst(r1, r2, c) ==
    IF r2.end > 0 /\ InIntroRange(r2.end, c) THEN r2
    ELSE IF r1.end > 0 /\ InIntroRange(r1.end, c) THEN r1
    ELSE StrategyResult(c.default_intro_duration, "out of range, using the default", -1)

\* the choice between the two strategies' results, lines 55-61
SelectResult(r1, r2, c) ==
    IF r1.end > 0 /\ InIntroRange(r1.end, c) THEN r1
    ELSE IF r2.end > 0 /\ InIntroRange(r2.end, c) THEN r2
    ELSE StrategyResult(c.default_intro_duration, "out of range, using the default", -1)

\* open, read, _parse_srt; an empty list or an exception gives the default
SubRead ==
    /\ prog = "detect_intro_from_srt" /\ pc = "read"
    /\ \E readable \in BOOLEAN :
          IF ~readable
          THEN /\ result' = StrategyResult(cfg.default_intro_duration, "detection failed", -1)
               /\ pc' = "done"
               /\ UNCHANGED subtitles
          ELSE /\ subtitles' = parse_srt(srt)
               /\ IF subtitles' = <<>>
                  THEN /\ result' = StrategyResult(cfg.default_intro_duration,
                                                   "no subtitles, using the default", -1)
                       /\ pc' = "done"
                  ELSE /\ result' = result
                       /\ pc' = "density"
    /\ UNCHANGED <<prog, cfg, hasSrt, trace, detection_results, handed, raised,
                   intro_end_1, intro_end_2>>
    /\ UNCHANGED <<adjustVars, mediaVars, permVars>>

\* intro_end_1, reason_1 = self._detect_by_dialogue_density(subtitles)
SubDensity ==
    /\ prog = "detect_intro_from_srt" /\ pc = "density"
    /\ intro_end_1' = detect_by_dialogue_density(subtitles, cfg)
    /\ pc' = "silence"
    /\ UNCHANGED <<prog, cfg, hasSrt, trace, detection_results, handed, result,
                   raised, subtitles, intro_end_2>>
    /\ UNCHANGED <<adjustVars, mediaVars, permVars>>

\* intro_end_2, reason_2 = self._detect_by_silence_break(subtitles)
SubSilence ==
    /\ prog = "detect_intro_from_srt" /\ pc = "silence"
    /\ intro_end_2' = detect_by_silence_break(subtitles, cfg)
    /\ pc' = "select"
    /\ UNCHANGED <<prog, cfg, hasSrt, trace, detection_results, handed, result,
                   raised, subtitles, intro_end_1>>
    /\ UNCHANGED <<adjustVars, mediaVars, permVars>>

\* the if / elif / else that picks the returned pair
SubSelect ==
    /\ prog = "detect_intro_from_srt" /\ pc = "select"
    /\ result' = SelectResult(intro_end_1, intro_end_2, cfg)
    /\ pc' = "done"
    /\ UNCHANGED <<prog, cfg, hasSrt, trace, detection_results, handed, raised>>
    /\ UNCHANGED <<adjustVars, subVars, mediaVars, permVars>>

InitSub ==
    /\ prog = "detect_intro_from_srt"
    /\ pc = "read"
    /\ cfg \in IntroConfigs
    /\ srt \in SubFiles
    /\ offset = 0
    /\ blk = 0
    /\ adjusted_blocks = <<>>
    /\ block_number = 0
    /\ hasSrt = TRUE
    /\ trace = <<>>
    /\ detection_results = <<>>
    /\ handed = <<>>
    /\ result = NoResult
    /\ raised = FALSE
    /\ SubIdle
    /\ MediaIdle
    /\ PermIdle

NextSub ==
    \/ SubRead
    \/ SubDensity
    \/ SubSilence
    \/ SubSelect

SpecSub == InitSub /\ [][NextSub]_vars

\* the selection step has run on both strategies' results
Selected == prog = "detect_intro_from_srt" /\ pc = "done" /\ subtitles # <<>>

\* C10 (as stated): the density result is returned when it lies within
\* [min, max]; otherwise the silence-break result when it lies within the
\* range; otherwise the call reports "not detected" (no estimate).
C10_Original ==
    Selected =>
        IF InIntroRange(intro_end_1.end, cfg) THEN result = intro_end_1
        ELSE IF InIntroRange(intro_end_2.end, cfg) THEN result = intro_end_2
        ELSE result.end = -1

\* C10 (amended): the density result is returned when it is > 0 and lies
\* within [min, max]; otherwise the silence-break result when it is > 0 and
\* lies within the range; otherwise the call returns default_intro_duration
\* with a reason saying that the results were out of range.
C10_SelectionOrder ==
    Selected =>
        IF intro_end_1.end > 0 /\ InIntroRange(intro_end_1.end, cfg)
        THEN result = intro_end_1
        ELSE IF intro_end_2.end > 0 /\ InIntroRange(intro_end_2.end, cfg)
        THEN result = intro_end_2
        ELSE /\ result.end = cfg.default_intro_duration
             /\ result.reason = "out of range, using the default"

C10_Witness ==
    /\ Selected
    /\ intro_end_1.end > 0 /\ InIntroRange(intro_end_1.end, cfg)
    /\ intro_end_2.end > 0 /\ InIntroRange(intro_end_2.end, cfg)
    /\ intro_end_1.end # intro_end_2.end
    /\ result = intro_end_1

\* the two strategies have run on a non-empty subtitle list
StrategiesRan ==
    /\ prog = "detect_intro_from_srt"
    /\ pc \in {"select", "done"}
    /\ subtitles # <<>>

\* the starts of the 10-second windows [0,10), [10,20), ... of a track
WindowStarts(subs) ==
    {w \in 0..subs[Len(subs)].start : w % 10 = 0}

\* captions starting in [w, w+10) whose stripped text is longer than 5 characters
WindowCount(subs, w) ==
    Cardinality({i \in 1..Len(subs) :
                    /\ w <= subs[i].start /\ subs[i].start < w + 10
                    /\ subs[i].chars > 5})

\* the windows in which count / 10 reaches min_dialogue_density
DenseWindows(subs, c) ==
    {w \in WindowStarts(subs) : WindowCount(subs, w) * 100 >= c.min_dialogue_density * 10}

\* C11: dialogue-density detection returns the start of the earliest
\* 10-second window whose count / 10 reaches min_dialogue_density, the window
\* of the last caption included, and -1 only when no window reaches it.
C11_DensityWindow ==
    StrategiesRan =>
        LET dense == DenseWindows(subtitles, cfg)
        IN  IF dense = {} THEN intro_end_1.end = -1
            ELSE intro_end_1.end = CHOOSE w \in dense : \A v \in dense : w <= v

\* the positions i with subtitles[i+1].start - subtitles[i].end >= silence_threshold
LongGaps ==
    {i \in 1..(Len(subtitles) - 1) :
        subtitles[i + 1].start - subtitles[i].end >= cfg.silence_threshold}

-----------------------------------------------------------------------------
(* AdvancedIntroDetector._detect_by_audio_features inside detect_intro *)

\* at most MaxLines silencedetect lines in ffmpeg's stderr
MaxLines == 4

\* the times ffmpeg prints are floats; one unit of the model is 1/TimeScale s
TimeScale == 2

\* int(x) for a time x >= 0
IntSeconds(t) == t \div TimeScale

\* x >= n and x <= n for a float time x and an int n of seconds
TimeGeq(t, n) == t >= n * TimeScale
TimeLeq(t, n) == t <= n * TimeScale

\* configurations: the defaults, the defaults with a strict
\* confidence_threshold, an earlier range and a late one
MediaConfigs ==
    {[min_intro_duration |-> r[1], max_intro_duration |-> r[2],
      default_intro_duration |-> r[3], confidence_threshold |-> r[4]]
        : r \in {<<AdvMinIntro, AdvMaxIntro, AdvDefaultIntro, Conf(60)>>,
                 <<AdvMinIntro, AdvMaxIntro, AdvDefaultIntro, Conf(90)>>,
                 <<20, 120, 60, Conf(60)>>,
                 <<70, 150, 80, Conf(60)>>}}

\* times of silence lines: 25.5 s, 29.5 s, 32.5 s, 37.5 s and 155 s
SilenceTimes == {51, 59, 65, 75, 310}

\* a stderr line holding "silence_start: t" or "silence_end: t"
SilenceLines ==
    {[kind |-> k, t |-> t] : k \in {"silence_start", "silence_end"},
                             t \in SilenceTimes}

\* ffmpeg writes the lines in time order
SilenceReports ==
    UNION {{f \in [1..n -> SilenceLines] : \A i \in 1..(n - 1) : f[i].t < f[i + 1].t}
              : n \in 0..MaxLines}

\* one pass of the loop over result.stderr.split('\n')
ParseSilenceLine(periods, line) ==
    IF line.kind = "silence_start"
    THEN Append(periods, [start |-> line.t, end |-> -1, type |-> "start"])
    ELSE IF /\ line.kind = "silence_end"
            /\ periods # <<>>
            /\ periods[Len(periods)].type = "start"
    THEN [periods EXCEPT ![Len(periods)] =
              [start |-> periods[Len(periods)].start, end |-> line.t, type |-> "period"]]
    ELSE periods

RECURSIVE ParseSilence(_, _)
ParseSilence(lines, periods) ==
    IF lines = <<>> THEN periods
    ELSE ParseSilence(Tail(lines), ParseSilenceLine(periods, lines[1]))

NoSilence == [duration |-> -1, start |-> -1, end |-> -1]

\* a faulty variant: a silence ending before min_intro_duration is eligible
LongestStepNoMin(longest, period, c) ==
    IF /\ period.type = "period"
       /\ TimeLeq(period.end, c.max_intro_duration)
       /\ (longest = NoSilence \/ period.end - period.start > longest.duration)
    THEN [duration |-> period.end - period.start, start |-> period.start,
          end |-> period.end]
    ELSE longest

\* one pass of the loop `for period in silence_periods`
LongestStep(longest, period, c) ==
    IF /\ period.type = "period"
       /\ TimeGeq(period.end, c.min_intro_duration)
       /\ TimeLeq(period.end, c.max_intro_duration)
       /\ (longest = NoSilence \/ period.end - period.start > longest.duration)
    THEN [duration |-> period.end - period.start, start |-> period.start,
          end |-> period.end]
    ELSE longest

RECURSIVE LongestSilence(_, _, _)
LongestSilence(periods, longest, c) ==
    IF periods = <<>> THEN longest
    ELSE LongestSilence(Tail(periods), LongestStep(longest, periods[1], c), c)

\* _detect_music_to_speech_transition
MusicToSpeech(c) ==
    IntroDetectionResult(MinOf(60, c.max_intro_duration), Conf(60),
                         "music_analysis", Details("spectral_analysis", <<>>))

\* what _detect_by_audio_features returns for the parsed silence_periods
AudioCandidate(periods, c) ==
    LET longest == LongestSilence(periods, NoSilence, c)
    IN  IF longest # NoSilence /\ longest.duration > 3 * TimeScale
        THEN IntroDetectionResult(IntSeconds(longest.end), Conf(80), "audio_silence",
                 Details("silence", <<longest.duration, longest.start, longest.end>>))
        ELSE MusicToSpeech(c)

\* subprocess.run and the parse of its stderr; an exception (ffmpeg cannot be
\* started) is caught in the extractor, which then returns None
AudioRun ==
    /\ prog = "detect_intro" /\ pc = "audio_run"
    /\ \E started \in BOOLEAN :
          IF started
          THEN /\ silence_periods' = ParseSilence(silence_lines, <<>>)
               /\ pc' = "audio_select"
               /\ UNCHANGED trace
          ELSE /\ trace' = Append(trace, [extractor |-> "audio",
                                          outcome |-> [kind |-> "none", cand |-> NoResult]])
               /\ pc' = "video"
               /\ UNCHANGED silence_periods
    /\ UNCHANGED <<prog, cfg, hasSrt, detection_results, handed, result, raised,
                   silence_lines, black_lines, scene_changes>>
    /\ UNCHANGED <<adjustVars, subVars, permVars>>

\* the longest silence, the return, and detection_results.append(audio_result)
AudioSelect ==
    /\ prog = "detect_intro" /\ pc = "audio_select"
    /\ LET cand == AudioCandidate(silence_periods, cfg)
       IN  /\ trace' = Append(trace, [extractor |-> "audio",
                                      outcome |-> [kind |-> "cand", cand |-> cand]])
           /\ detection_results' = Append(detection_results, cand)
    /\ pc' = "video"
    /\ UNCHANGED <<prog, cfg, hasSrt, handed, result, raised>>
    /\ UNCHANGED <<adjustVars, subVars, mediaVars, permVars>>

InitAudio ==
    /\ prog = "detect_intro"
    /\ pc = "audio_run"
    /\ cfg \in MediaConfigs
    /\ hasSrt \in BOOLEAN
    /\ silence_lines \in SilenceReports
    /\ silence_periods = <<>>
    /\ black_lines = <<>>
    /\ scene_changes = <<>>
    /\ trace = <<>>
    /\ detection_results = <<>>
    /\ handed = <<>>
    /\ result = NoResult
    /\ raised = FALSE
    /\ AdjustIdle
    /\ SubIdle
    /\ PermIdle

NextAudio ==
    \/ AudioRun
    \/ AudioSelect
    \/ AdvVideo
    \/ AdvSubtitle
    \/ AdvFuse

SpecAudio == InitAudio /\ [][NextAudio]_vars

\* the audio extractor has parsed stderr and returned a candidate
AudioReturned ==
    /\ prog = "detect_intro"
    /\ trace # <<>>
    /\ trace[1].extractor = "audio"
    /\ trace[1].outcome.kind = "cand"

AudioCand == trace[1].outcome.cand

\* the completed silence intervals whose end lies within [min, max]
EligibleSilences ==
    {i \in 1..Len(silence_periods) :
        /\ silence_periods[i].type = "period"
        /\ TimeGeq(silence_periods[i].end, cfg.min_intro_duration)
        /\ TimeLeq(silence_periods[i].end, cfg.max_intro_duration)}

SilenceDuration(i) == silence_periods[i].end - silence_periods[i].start

\* the eligible intervals of the greatest duration
GreatestSilences ==
    {i \in EligibleSilences : \A j \in EligibleSilences : SilenceDuration(i) >= SilenceDuration(j)}

\* the extractor's part of C13: an eligible interval of the greatest
\* duration, if that exceeds 3 s, gives the candidate (its end in whole
\* seconds, 0.8, audio_silence); otherwise no audio_silence candidate
SilenceCandidateRule ==
    IF \E i \in GreatestSilences : SilenceDuration(i) > 3 * TimeScale
    THEN /\ AudioCand.method = "audio_silence"
         /\ AudioCand.confidence = Conf(80)
         /\ \E i \in GreatestSilences :
               AudioCand.intro_end_seconds = IntSeconds(silence_periods[i].end)
    ELSE AudioCand.method # "audio_silence"

\* detect_intro has returned and the audio_silence candidate was the only one
OnlySilenceCandidate ==
    /\ AudioReturned
    /\ Returned
    /\ AudioCand.method = "audio_silence"
    /\ handed = <<AudioCand>>

\* C13 (as stated): only completed silence intervals ending within
\* [min, max] are eligible, the one of greatest duration is selected and, if
\* longer than 3 s, emitted with its end, 0.8 and audio_silence; when no other
\* extractor produces a candidate, detect_intro returns exactly this candidate.
C13_Original ==
    AudioReturned =>
        /\ SilenceCandidateRule
        /\ OnlySilenceCandidate => result = AudioCand

\* C13 (amended): the same rule for the extractor, the end truncated to
\* whole seconds; when no other extractor produces a candidate and
\* confidence_threshold <= 0.8, detect_intro returns exactly this candidate,
\* and with a higher threshold it returns the default.
C13_SilenceCandidate ==
    AudioReturned =>
        /\ SilenceCandidateRule
        /\ OnlySilenceCandidate =>
              IF cfg.confidence_threshold <= Conf(80)
              THEN result = AudioCand
              ELSE result = AdvDefaultResult(cfg)

\* two eligible silences, the longer one ends at a fraction of a second and
\* is returned by detect_intro as the only candidate
C13_Witness ==
    /\ OnlySilenceCandidate
    /\ Cardinality(EligibleSilences) = 2
    /\ Cardinality(GreatestSilences) = 1
    /\ \E i \in GreatestSilences : silence_periods[i].end % TimeScale # 0
    /\ result = AudioCand
    /\ result.intro_end_seconds \in cfg.min_intro_duration..cfg.max_intro_duration

-----------------------------------------------------------------------------
(* The fusion step as a function of the candidate list: step 4 of          *)
(* detect_intro and _combine_results, called on a list and on the same     *)
(* list in another order                                                   *)

\* at most MaxCands candidates in a list
MaxCands == 3

PermEnds == {32, 34, 63, 160}

MethodOfConf(k) ==
    IF k = Conf(80) THEN "black_screen"
    ELSE IF k = Conf(70) THEN "text_density"
    ELSE IF k = Conf(65) THEN "scene_gap"
    ELSE "music_analysis"

\* candidates with the confidences the extractors give
AdvPermCandidates ==
    {IntroDetectionResult(e, k, MethodOfConf(k), Details("candidate", <<>>))
        : e \in PermEnds, k \in {Conf(60), Conf(65), Conf(80)}}

SmartPermCandidates ==
    {SmartDetectionResult(e, "None", k, MethodOfConf(k), Details("candidate", <<>>))
        : e \in PermEnds, k \in {Conf(65), Conf(70), Conf(80)}}

CandidateLists(pool) == UNION {[1..n -> pool] : n \in 1..MaxCands}

\* the fusion step on the list as given
FuseGiven ==
    /\ prog \in {"detect_intro.fusion", "_combine_results"}
    /\ pc = "given"
    /\ result' = (IF prog = "_combine_results" THEN combine_results(handed)
                  ELSE AdvFusion(handed, cfg))
    /\ pc' = "reordered"
    /\ UNCHANGED <<prog, cfg, hasSrt, trace, detection_results, handed, raised>>
    /\ UNCHANGED <<adjustVars, subVars, mediaVars, permVars>>

\* the fusion step on a permutation of the list
FuseReordered ==
    /\ prog \in {"detect_intro.fusion", "_combine_results"}
    /\ pc = "reordered"
    /\ \E p \in Permutations(1..Len(handed)) :
          /\ reordered' = [i \in 1..Len(handed) |-> handed[p[i]]]
          /\ result_reordered' =
                (IF prog = "_combine_results" THEN combine_results(reordered')
                 ELSE AdvFusion(reordered', cfg))
    /\ pc' = "done"
    /\ UNCHANGED <<prog, cfg, hasSrt, trace, detection_results, handed, result,
                   raised>>
    /\ UNCHANGED <<adjustVars, subVars, mediaVars>>

InitPerm ==
    /\ prog \in {"detect_intro.fusion", "_combine_results"}
    /\ pc = "given"
    /\ cfg \in (IF prog = "_combine_results" THEN {SmartConfig} ELSE AdvConfigs)
    /\ handed \in CandidateLists(IF prog = "_combine_results" THEN SmartPermCandidates
                                 ELSE AdvPermCandidates)
    /\ hasSrt = FALSE
    /\ trace = <<>>
    /\ detection_results = <<>>
    /\ result = NoResult
    /\ raised = FALSE
    /\ AdjustIdle
    /\ SubIdle
    /\ MediaIdle
    /\ PermIdle

NextPerm ==
    \/ FuseGiven
    \/ FuseReordered

SpecPerm == InitPerm /\ [][NextPerm]_vars

\* both calls have returned and the first took the averaging branch
BothAveraged ==
    /\ prog \in {"detect_intro.fusion", "_combine_results"}
    /\ pc = "done"
    /\ result.method \in {"average", "weighted_average"}

DistinctConfidences ==
    \A i, j \in 1..Len(handed) : i # j => handed[i].confidence # handed[j].confidence

OrderIndependentWithoutTies ==
    BothAveraged /\ (prog = "detect_intro.fusion" \/ DistinctConfidences) =>
        /\ result_reordered.intro_end_seconds = result.intro_end_seconds
        /\ result_reordered.confidence = result.confidence
        /\ result_reordered.method = result.method

-----------------------------------------------------------------------------
(* The fallback of the fusion step (detect_intro and detect) *)

\* the call has returned, there were candidates, the best one is below the
\* threshold (confidence_threshold, 0.8 in _combine_results), and there are
\* fewer than two or the mean of their ends is outside [min, max]
NothingToAverage ==
    /\ prog \in {"detect_intro", "detect"}
    /\ Returned
    /\ handed # <<>>
    /\ TopConf < cfg.confidence_threshold
    /\ \/ Len(handed) < 2
       \/ SumEnds(handed) < cfg.min_intro_duration * Len(handed)
       \/ SumEnds(handed) > cfg.max_intro_duration * Len(handed)

\* C15 (as stated): in that case the fusion step returns the fixed default
\* (method default, confidence 0.5, end = default intro duration), in
\* detect_intro and in _combine_results alike; a single candidate below the
\* threshold is never the final result.
C15_Original ==
    NothingToAverage =>
        /\ result.method = "default"
        /\ result.confidence = Conf(50)
        /\ result.intro_end_seconds = cfg.default_intro_duration

\* C15 (amended): in that case detect_intro returns the fixed default; in
\* detect the case is that of a single candidate below 0.8 (the mean of
\* candidates within [min, max] is never outside), and _combine_results
\* returns that candidate as it is.
C15_FusionFallback ==
    NothingToAverage =>
        IF prog = "detect_intro"
        THEN result = AdvDefaultResult(cfg)
        ELSE Len(handed) = 1 /\ result = handed[1]

\* detect_intro had one candidate, of a confidence below the threshold, and
\* returned the default
C15_Witness ==
    /\ prog = "detect_intro"
    /\ NothingToAverage
    /\ Len(handed) = 1
    /\ result.method = "default"
    /\ result.intro_end_seconds # handed[1].intro_end_seconds

-----------------------------------------------------------------------------
(* _parse_srt (IntroDetector and AdvancedIntroDetector: the same code) *)

\* at most MaxBlocks blocks in a file
MaxBlocks == 3

\* a timestamp is the sequence of its parts between colons; a part is its
\* number (the third in milliseconds), or -1 for text that int() / float()
\* cannot read
GoodStamps == {<<0, 0, 1000>>, <<0, 0, 2000>>, <<0, 1, 0>>}
BadStamps == {<<0, -1, 1000>>, <<0, 0>>}

\* a block is [nlines, stamps, text]: the number of its lines, the pieces of
\* its second line between ' --> ', and the text of the lines from the third
ParseBlocks ==
    {[nlines |-> 3, stamps |-> <<st, <<0, 2, 0>>>>, text |-> x]
        : st \in GoodStamps, x \in {"a", "b"}}
    \cup {[nlines |-> 3, stamps |-> <<st, <<0, 2, 0>>>>, text |-> "a"] : st \in BadStamps}
    \cup {[nlines |-> 3, stamps |-> <<<<0, 0, 1000>>, <<0, -1, 0>>>>, text |-> "a"],
          [nlines |-> 3, stamps |-> <<<<0, 0, 1000>>>>, text |-> "a"],
          [nlines |-> 3, stamps |-> <<<<0, 0, 1000>>, <<0, 2, 0>>, <<0, 3, 0>>>>,
           text |-> "a"],
          [nlines |-> 2, stamps |-> <<<<0, 0, 1000>>, <<0, 2, 0>>>>, text |-> ""]}

ParseFiles == UNION {[1..n -> ParseBlocks] : n \in 0..MaxBlocks}

\* _time_to_seconds raises: parts[2] is missing, or int() / float() fails
StampRaises(st) ==
    \/ Len(st) < 3
    \/ st[1] = -1 \/ st[2] = -1 \/ st[3] = -1

\* hours * 3600 + minutes * 60 + seconds, in milliseconds
StampMillis(st) == st[1] * 3600000 + st[2] * 60000 + st[3]

\* the try block raises: the unpacking of split(' --> ') or a timestamp
BlockRaises(b) ==
    \/ Len(b.stamps) # 2
    \/ StampRaises(b.stamps[1])
    \/ StampRaises(b.stamps[2])

\* the body of `for block in blocks`
ParseBlock ==
    /\ prog \in {"IntroDetector._parse_srt", "AdvancedIntroDetector._parse_srt"}
    /\ pc = "blocks"
    /\ blk <= Len(srt)
    /\ LET b == srt[blk]
       IN  IF b.nlines >= 3 /\ ~BlockRaises(b)
           THEN subtitles' =
                   Append(subtitles,
                          [start |-> StampMillis(b.stamps[1]),
                           end |-> StampMillis(b.stamps[2]),
                           text |-> b.text,
                           duration |-> StampMillis(b.stamps[2]) - StampMillis(b.stamps[1])])
           ELSE UNCHANGED subtitles
    /\ blk' = blk + 1
    /\ UNCHANGED <<prog, cfg, hasSrt, pc, trace, detection_results, handed,
                   result, raised, srt, offset, adjusted_blocks, block_number,
                   intro_end_1, intro_end_2>>
    /\ UNCHANGED <<mediaVars, permVars>>

\* return sorted(subtitles, key=lambda x: x['start'])
ParseReturn ==
    /\ prog \in {"IntroDetector._parse_srt", "AdvancedIntroDetector._parse_srt"}
    /\ pc = "blocks"
    /\ blk > Len(srt)
    /\ subtitles' = SortByStartFrom(subtitles, <<>>)
    /\ pc' = "done"
    /\ UNCHANGED <<prog, cfg, hasSrt, trace, detection_results, handed,
                   result, raised, intro_end_1, intro_end_2>>
    /\ UNCHANGED <<adjustVars, mediaVars, permVars>>

InitParse ==
    /\ prog \in {"IntroDetector._parse_srt", "AdvancedIntroDetector._parse_srt"}
    /\ pc = "blocks"
    /\ srt \in ParseFiles
    /\ blk = 1
    /\ offset = 0
    /\ adjusted_blocks = <<>>
    /\ block_number = 0
    /\ DetectIdle
    /\ SubIdle
    /\ MediaIdle
    /\ PermIdle

NextParse ==
    \/ ParseBlock
    \/ ParseReturn

SpecParse == InitParse /\ [][NextParse]_vars

\* _parse_srt has returned
Parsed ==
    /\ prog \in {"IntroDetector._parse_srt", "AdvancedIntroDetector._parse_srt"}
    /\ pc = "done"

\* a timestamp HH:MM:SS,mmm
WellFormedStamp(st) == Len(st) = 3 /\ \A i \in 1..3 : st[i] >= 0

\* a block of an index line, a line "start --> end" and at least one text line
WellFormedBlock(b) ==
    /\ b.nlines >= 3
    /\ Len(b.stamps) = 2
    /\ WellFormedStamp(b.stamps[1])
    /\ WellFormedStamp(b.stamps[2])

WellFormedPositions == {i \in 1..Len(srt) : WellFormedBlock(srt[i])}

\* the record k of the result is the block at position i of the file
RecordOf(k, i) ==
    /\ subtitles[k].start = StampMillis(srt[i].stamps[1])
    /\ subtitles[k].end = StampMillis(srt[i].stamps[2])
    /\ subtitles[k].text = srt[i].text

-----------------------------------------------------------------------------
(* AdvancedIntroDetector._detect_by_video_features *)

\* at most MaxScenes scene changes and MaxBlacks black segments in a report
MaxScenes == 7
MaxBlacks == 2

\* pts_time values: 5, 12, 30.5, 31, 32, 40, 41.5, 50, 52 and 70 s
SceneTimes == {10, 24, 61, 62, 64, 80, 83, 100, 104, 140}

\* black_end values: 25, 35.5 and 45 s
BlackTimes == {50, 71, 90}

\* int(change_time // window_size) * window_size
WindowOf(t) == (t \div (10 * TimeScale)) * 10

\* change_density[window]
ChangeDensity(changes, w) ==
    Cardinality({i \in 1..Len(changes) : WindowOf(changes[i]) = w})

\* sorted(change_density.keys())
RECURSIVE SortedSeq(_)
SortedSeq(S) ==
    IF S = {} THEN <<>>
    ELSE LET m == CHOOSE x \in S : \A y \in S : x <= y
         IN  <<m>> \o SortedSeq(S \ {m})

\* the increasing sequences of at most n members of the set S of times
Reports(S, n) == {SortedSeq(T) : T \in {U \in SUBSET S : Cardinality(U) <= n}}

SortedWindows(changes) == SortedSeq({WindowOf(changes[i]) : i \in 1..Len(changes)})

\* the scene changes after the window at position i of sorted_windows
ChangesAfter(changes, w) ==
    {j \in 1..Len(changes) : changes[j] > (w + 10) * TimeScale}

\* the positions i of the loop over sorted_windows at which it returns
DensityDrops(changes, c) ==
    LET sw == SortedWindows(changes)
    IN  {i \in 1..(Len(sw) - 1) :
            /\ c.min_intro_duration <= sw[i] /\ sw[i] <= c.max_intro_duration
            /\ ChangeDensity(changes, sw[i]) >= 3
            /\ ChangeDensity(changes, sw[i + 1]) <= 1
            /\ ChangesAfter(changes, sw[i]) # {}}

\* the positions i of the loop over scene_changes at which it returns
SceneGaps(changes, c) ==
    {i \in 2..Len(changes) :
        /\ TimeGeq(changes[i], c.min_intro_duration)
        /\ changes[i] - changes[i - 1] > 15 * TimeScale}

Least(S) == CHOOSE x \in S : \A y \in S : x <= y

\* lines 272-326: the density drop, else the long gap, else nothing
SceneCandidate(changes, c) ==
    IF Len(changes) > 5
    THEN IF DensityDrops(changes, c) # {}
         THEN LET w == SortedWindows(changes)[Least(DensityDrops(changes, c))]
                  j == Least(ChangesAfter(changes, w))
              IN  IntroDetectionResult(IntSeconds(changes[j]), Conf(75),
                      "scene_density_drop", Details("transition_point", <<changes[j]>>))
         ELSE IF SceneGaps(changes, c) # {}
         THEN LET i == Least(SceneGaps(changes, c))
              IN  IntroDetectionResult(IntSeconds(changes[i]), Conf(65), "scene_gap",
                      Details("gap_duration", <<changes[i], changes[i] - changes[i - 1]>>))
         ELSE NoResult
    ELSE NoResult

\* a faulty variant: the last black end that is late enough
BlackHitsLast(blacks, c) ==
    LET late == {j \in 1..Len(blacks) : TimeGeq(blacks[j], c.min_intro_duration)}
    IN  IF late = {} THEN {} ELSE {CHOOSE x \in late : \A y \in late : x >= y}

\* the positions of the black_end lines with end_time >= min_intro_duration
BlackHits(blacks, c) ==
    {j \in 1..Len(blacks) : TimeGeq(blacks[j], c.min_intro_duration)}

BlackCandidate(blacks, c) ==
    LET j == Least(BlackHits(blacks, c))
    IN  IntroDetectionResult(IntSeconds(blacks[j]), Conf(80), "black_screen",
                             Details("black_screen_end", <<blacks[j]>>))

\* the first ffmpeg run and the parse of its pts_time lines into
\* scene_changes; an exception is caught and the extractor returns None
VideoSceneRun ==
    /\ prog = "_detect_by_video_features" /\ pc = "scene_run"
    /\ \E started \in BOOLEAN :
          /\ trace' = Append(trace, [run |-> "select", started |-> started])
          /\ IF started
             THEN /\ \E report \in Reports(SceneTimes, MaxScenes) :
                        scene_changes' = report
                  /\ pc' = "black_run"
             ELSE /\ pc' = "done"
                  /\ UNCHANGED scene_changes
    /\ UNCHANGED <<prog, cfg, hasSrt, detection_results, handed, result,
                   raised, silence_lines, silence_periods, black_lines>>
    /\ UNCHANGED <<adjustVars, subVars, permVars>>

\* the second ffmpeg run and the loop over its black_end lines
VideoBlackRun ==
    /\ prog = "_detect_by_video_features" /\ pc = "black_run"
    /\ \E started \in BOOLEAN :
          /\ trace' = Append(trace, [run |-> "blackdetect", started |-> started])
          /\ IF started
             THEN \E report \in Reports(BlackTimes, MaxBlacks) :
                     /\ black_lines' = report
                     /\ IF BlackHits(report, cfg) # {}
                        THEN /\ result' = BlackCandidate(report, cfg)
                             /\ pc' = "done"
                        ELSE /\ pc' = "scenes"
                             /\ UNCHANGED result
             ELSE /\ pc' = "done"
                  /\ UNCHANGED <<black_lines, result>>
    /\ UNCHANGED <<prog, cfg, hasSrt, detection_results, handed, raised,
                   silence_lines, silence_periods, scene_changes>>
    /\ UNCHANGED <<adjustVars, subVars, permVars>>

\* the analysis of scene_changes and the return
VideoScenes ==
    /\ prog = "_detect_by_video_features" /\ pc = "scenes"
    /\ result' = SceneCandidate(scene_changes, cfg)
    /\ pc' = "done"
    /\ UNCHANGED <<prog, cfg, hasSrt, trace, detection_results, handed, raised>>
    /\ UNCHANGED <<adjustVars, subVars, mediaVars, permVars>>

InitVideo ==
    /\ prog = "_detect_by_video_features"
    /\ pc = "scene_run"
    /\ cfg \in MediaConfigs
    /\ hasSrt = FALSE
    /\ black_lines = <<>>
    /\ scene_changes = <<>>
    /\ silence_lines = <<>>
    /\ silence_periods = <<>>
    /\ trace = <<>>
    /\ detection_results = <<>>
    /\ handed = <<>>
    /\ result = NoResult
    /\ raised = FALSE
    /\ AdjustIdle
    /\ SubIdle
    /\ PermIdle

NextVideo ==
    \/ VideoSceneRun
    \/ VideoBlackRun
    \/ VideoScenes

SpecVideo == InitVideo /\ [][NextVideo]_vars

\* _detect_by_video_features has returned after both ffmpeg runs
VideoReturned ==
    /\ prog = "_detect_by_video_features"
    /\ pc = "done"
    /\ Len(trace) = 2
    /\ trace[2].started

\* the black-frame report has an end that is late enough
BlackScreenHit == BlackHits(black_lines, cfg) # {}

\* C17: whenever the black-frame report has an end >= min_intro_duration,
\* the extractor returns the first such end in report order (in whole
\* seconds, the end itself in the details) with confidence 0.8 and method
\* black_screen, whatever the scene changes are; otherwise it does not
\* return a black screen, and it returns the density drop, if there is
\* one, rather than the scene gap.
C17_VideoPriority ==
    VideoReturned =>
        IF BlackScreenHit
        THEN LET j == Least(BlackHits(black_lines, cfg))
             IN  /\ \A i \in 1..(j - 1) : ~TimeGeq(black_lines[i], cfg.min_intro_duration)
                 /\ result.method = "black_screen"
                 /\ result.confidence = Conf(80)
                 /\ result.intro_end_seconds = IntSeconds(black_lines[j])
                 /\ result.details.results = <<black_lines[j]>>
        ELSE /\ result.method \in {"scene_density_drop", "scene_gap", "none"}
             /\ (Len(scene_changes) > 5 /\ DensityDrops(scene_changes, cfg) # {})
                    => result.method = "scene_density_drop"

\* two black ends are late enough, and the scene changes alone would have
\* given a density drop
C17_Witness ==
    /\ VideoReturned
    /\ Cardinality(BlackHits(black_lines, cfg)) = 2
    /\ SceneCandidate(scene_changes, cfg).method = "scene_density_drop"
    /\ result.method = "black_screen"

\* no black end is late enough, the scene changes have both a density drop
\* and a long gap, and the density drop is returned
C17_WitnessDrop ==
    /\ VideoReturned
    /\ ~BlackScreenHit
    /\ SceneGaps(scene_changes, cfg) # {}
    /\ result.method = "scene_density_drop"

\* the starts of the fixed 10 s buckets up to the last scene change
FixedBuckets ==
    IF scene_changes = <<>> THEN {}
    ELSE {10 * k : k \in 0..(WindowOf(scene_changes[Len(scene_changes)]) \div 10)}

\* the buckets within [min, max] with 3 or more scene changes of which the
\* next 10 s hold at most one
DenseThenSparse ==
    {w \in FixedBuckets :
        /\ cfg.min_intro_duration <= w /\ w <= cfg.max_intro_duration
        /\ ChangeDensity(scene_changes, w) >= 3
        /\ ChangeDensity(scene_changes, w + 10) <= 1}

\* C18: without a black-screen hit, for the first 10 s bucket within
\* [min, max] that holds 3 or more scene changes while the 10 s after it
\* hold at most one (none included), the extractor returns the first scene
\* change later than bucket start + 10 s with confidence 0.75 and method
\* scene_density_drop.
C18_DensityDrop ==
    (/\ VideoReturned
     /\ ~BlackScreenHit
     /\ DenseThenSparse # {}
     /\ ChangesAfter(scene_changes, Least(DenseThenSparse)) # {})
        => LET w == Least(DenseThenSparse)
               j == Least(ChangesAfter(scene_changes, w))
           IN  /\ result.method = "scene_density_drop"
               /\ result.confidence = Conf(75)
               /\ result.intro_end_seconds = IntSeconds(scene_changes[j])

\* where the bucket after the dense one is not empty and more than five
\* scene changes are reported, the extractor does so
DensityDropNextOccupied ==
    (/\ VideoReturned
     /\ ~BlackScreenHit
     /\ Len(scene_changes) > 5
     /\ DenseThenSparse # {}
     /\ \A w \in DenseThenSparse : ChangeDensity(scene_changes, w + 10) = 1
     /\ ChangesAfter(scene_changes, Least(DenseThenSparse)) # {})
        => LET w == Least(DenseThenSparse)
               j == Least(ChangesAfter(scene_changes, w))
           IN  result = IntroDetectionResult(IntSeconds(scene_changes[j]), Conf(75),
                   "scene_density_drop", Details("transition_point", <<scene_changes[j]>>))

\* the consecutive scene changes more than 15 s apart of which the later
\* one is at min_intro_duration or later, by the position of the later one
LongScenePairs ==
    {i \in 2..Len(scene_changes) :
        /\ scene_changes[i] >= cfg.min_intro_duration * TimeScale
        /\ scene_changes[i] - scene_changes[i - 1] > 15 * TimeScale}

\* the extractor went through the scene analysis and found no density drop
NoHitNoDrop ==
    /\ VideoReturned
    /\ ~BlackScreenHit
    /\ result.method # "scene_density_drop"

\* the later scene change of the first long pair, 0.65, scene_gap
FirstLongPairReturned ==
    LET i == Least(LongScenePairs)
    IN  /\ result.method = "scene_gap"
        /\ result.confidence = Conf(65)
        /\ result.intro_end_seconds = IntSeconds(scene_changes[i])
        /\ result.details.results[1] = scene_changes[i]

\* C19: without a black-screen hit and without a density drop, whenever two
\* consecutive scene changes are more than 15 s apart and the later one is
\* at min_intro_duration or later, the extractor returns the later one of
\* the first such pair with confidence 0.65 and method scene_gap, for two
\* or more scene changes.
C19_SceneGap ==
    (NoHitNoDrop /\ Len(scene_changes) >= 2 /\ LongScenePairs # {})
        => FirstLongPairReturned

\* the extractor does so when more than five scene changes are reported;
\* with five or fewer it returns nothing
SceneGapAboveFive ==
    NoHitNoDrop =>
        IF Len(scene_changes) > 5 /\ LongScenePairs # {}
        THEN FirstLongPairReturned
        ELSE result = NoResult

\* more than five scene changes; the first pair more than 15 s apart ends
\* before min_intro_duration and a later pair is returned
SceneGapLaterPair ==
    /\ NoHitNoDrop
    /\ Len(scene_changes) > 5
    /\ result.method = "scene_gap"
    /\ \E i \in 2..Len(scene_changes) :
          /\ scene_changes[i] - scene_changes[i - 1] > 15 * TimeScale
          /\ i < Least(LongScenePairs)

\* five scene changes or fewer with a long pair: nothing is returned
SceneGapFewChanges ==
    /\ NoHitNoDrop
    /\ Len(scene_changes) \in 2..5
    /\ LongScenePairs # {}
    /\ result = NoResult

-----------------------------------------------------------------------------
(* The range of the result of detect_intro *)

InRange(e, c) == c.min_intro_duration <= e /\ e <= c.max_intro_duration

\* C20: every result returned by detect_intro has intro_end_seconds within
\* [min_intro_duration, max_intro_duration] or equal to
\* default_intro_duration.
C20_ResultInRange ==
    (prog = "detect_intro" /\ pc = "done")
        => \/ InRange(result.intro_end_seconds, cfg)
           \/ result.intro_end_seconds = cfg.default_intro_duration

\* the first dialogue line of the subtitles starts after max_intro_duration
\* and is returned, no other extractor having a candidate
SubtitleBeyondMax ==
    /\ prog = "detect_intro" /\ pc = "done"
    /\ Len(handed) = 1
    /\ result.method = "subtitle_analysis"
    /\ result.intro_end_seconds > cfg.max_intro_duration

\* the fixed estimate of the music analysis lies before min_intro_duration
\* and is returned
MusicBelowMin ==
    /\ prog = "detect_intro" /\ pc = "done"
    /\ result.method = "music_analysis"
    /\ result.intro_end_seconds < cfg.min_intro_duration
    /\ result.intro_end_seconds # cfg.default_intro_duration

-----------------------------------------------------------------------------
(* The confidences of the candidates of detect_intro *)

ExtractorConfidences == {Conf(60), Conf(65), Conf(75), Conf(80)}

\* the candidates collected so far, and those handed to step 4
CollectedConfidences ==
    {detection_results[i].confidence : i \in 1..Len(detection_results)}
    \cup {handed[i].confidence : i \in 1..Len(handed)}

\* C21: every candidate of the extractors of detect_intro has a confidence
\* of 0.6, 0.65, 0.75 or 0.8; so with confidence_threshold <= 0.6 a
\* non-empty candidate list makes detect_intro return one of its candidates
\* unchanged (the first of the highest confidence), never the average, and
\* the default is returned only for an empty candidate list.
C21_CandidateVerbatim ==
    prog = "detect_intro" =>
        /\ CollectedConfidences \subseteq ExtractorConfidences
        /\ (pc = "done" /\ ~raised /\ cfg.confidence_threshold <= Conf(60)) =>
              /\ result.method # "average"
              /\ handed # <<>> => result = FirstTop
              /\ result.method = "default" => handed = <<>>
              /\ handed = <<>> => result = AdvDefaultResult(cfg)

\* two candidates of confidence 0.6, exactly the threshold: the first one is
\* returned
C21_Witness ==
    /\ prog = "detect_intro" /\ pc = "done"
    /\ cfg.confidence_threshold = Conf(60)
    /\ Len(handed) = 2
    /\ TopConf = Conf(60)
    /\ result = handed[1]

\* the same for the candidates of the video extractor on its own
VideoConfidences ==
    (prog = "_detect_by_video_features" /\ result # NoResult)
        => result.confidence \in {Conf(65), Conf(75), Conf(80)}

-----------------------------------------------------------------------------
(* All top-level calls *)

Init == InitDetect \/ InitAdjust \/ InitSub \/ InitAudio \/ InitPerm \/ InitParse \/ InitVideo

Next == NextDetect \/ NextAdjust \/ NextSub \/ NextAudio \/ NextPerm \/ NextParse \/ NextVideo

Spec == Init /\ [][Next]_vars

=============================================================================
